---------------------------- MODULE Spec2Model ----------------------------
(***************************************************************************)
(* A model of SortedSet<KeyType> (sorted_set.hh): a skip list with spans   *)
(* and backward links, kept next to a hash table from key to score.        *)
(*                                                                         *)
(* Heap nodes are addressed by natural numbers; NULL is 0 and the header   *)
(* node allocated by the constructor has address mHeader.  A node is a     *)
(* record with the fields of class SkipListNode; its mLevel field is the   *)
(* array of SkipListLevel records allocated for it, indexed from 0.        *)
(* Scores are doubles in the source; the model draws them from a small     *)
(* range of integers, which doubles represent exactly.                     *)
(*                                                                         *)
(* The private member functions are operators from a value z of the whole  *)
(* object (heap, mTail, mLength, mLevel, mDict) to the value after the     *)
(* call; each public mutator is one action.                                *)
(*                                                                         *)
(* Addresses: the code compares node addresses only for equality, so which *)
(* address operator new returns is immaterial.  The model hands out        *)
(* addresses in increasing order and, at the end of every public call,     *)
(* renames the live nodes to mHeader+1, mHeader+2, ... keeping their       *)
(* order.  Hence of two live nodes the one inserted earlier has the lower  *)
(* address.                                                                *)
(***************************************************************************)
EXTENDS Integers, Sequences, FiniteSets, TLC

\* Bounds of the model.
MaxKey == 3
MaxScore == 1
MaxNodes == 3
MaxDraw == 2
MaxIndex == 2

\* Program constants.
SKIPLIST_MAXLEVEL == 32
NULL == 0
mHeader == 1

Keys == 1..MaxKey
Scores == 0..MaxScore
Deltas == (0 - MaxScore)..MaxScore
Draws == 1..MaxDraw
Indexes == (0 - MaxIndex)..MaxIndex
Addrs == (mHeader + 1)..(mHeader + MaxNodes)

VARIABLES
    heap,       \* address -> SkipListNode, for every allocated node
    mTail,      \* SortedSet::mTail
    mLength,    \* SortedSet::mLength
    mLevel,     \* SortedSet::mLevel
    mDict,      \* SortedSet::mDict, a function from the stored keys to scores
    fresh,      \* history: every call so far was a zadd of an absent key
    lastOp,     \* history: the name of the last public call
    lastKey,    \* history: the key of the last call if it was a zadd, else 0
    repeated,   \* history: the last call was zadd(k, s), made immediately
                \* after another call zadd(k, s)
    absent,     \* history: the last call was zrem of a key the index did
                \* not hold
    paired,     \* a second copy of the set receives the same calls
    twin        \* the second copy, whose nodes all get one level; it stays
                \* as constructed when not paired

vars == <<heap, mTail, mLength, mLevel, mDict, fresh, lastOp, lastKey, repeated,
         absent, paired, twin>>

-----------------------------------------------------------------------------
(* Node construction *)

SkipListLevel == [mForward |-> NULL, mSpan |-> 0]

HeaderNode(level) ==
    [mIsHeader |-> TRUE, mScore |-> 0, mKey |-> 0, mBackward |-> NULL,
     mLevel |-> [i \in 0..(level - 1) |-> SkipListLevel]]

SkipListNode(level, score, key) ==
    [mIsHeader |-> FALSE, mScore |-> score, mKey |-> key, mBackward |-> NULL,
     mLevel |-> [i \in 0..(level - 1) |-> SkipListLevel]]

\* operator new: an address above every address in use
NewAddr(h) == 1 + (CHOOSE a \in DOMAIN h : \A b \in DOMAIN h : b <= a)

\* operator delete
Free(h, x) == [a \in (DOMAIN h) \ {x} |-> h[a]]

\* the renaming of the live addresses done at the end of a public call;
\* the address of a node that was deleted (a dangling pointer) becomes -1
Renamed(h, a) ==
    IF a = NULL THEN NULL
    ELSE IF a \in DOMAIN h THEN Cardinality({b \in DOMAIN h : b <= a})
    ELSE 0 - 1

Compact(z) ==
    LET h == z.heap
        old(n) == CHOOSE a \in DOMAIN h : Renamed(h, a) = n
        node(a) == [h[a] EXCEPT
                       !.mBackward = Renamed(h, @),
                       !.mLevel = [i \in DOMAIN @ |->
                                      [@[i] EXCEPT !.mForward = Renamed(h, @)]]]
    IN [z EXCEPT !.heap = [n \in 1..Cardinality(DOMAIN h) |-> node(old(n))],
                 !.mTail = Renamed(h, @)]

\* randomlevel() for a run of `draw - 1` successful coin flips
randomlevel(draw) == IF draw < SKIPLIST_MAXLEVEL THEN draw ELSE SKIPLIST_MAXLEVEL

NoUpdate == [i \in 0..(SKIPLIST_MAXLEVEL - 1) |-> NULL]
NoRank == [i \in 0..(SKIPLIST_MAXLEVEL - 1) |-> 0]

-----------------------------------------------------------------------------
(* private_insert *)

insert_passes_inverted(nodeScore, score) == nodeScore > score

insert_passes_or_equal(nodeScore, score) == nodeScore <= score

\* the comparison that moves the insert search forward (line 84)
insert_passes(nodeScore, score) == nodeScore < score

RECURSIVE insert_while(_, _, _, _, _)
insert_while(z, x, i, score, r) ==
    LET f == z.heap[x].mLevel[i].mForward IN
    IF f # NULL /\ insert_passes(z.heap[f].mScore, score)
    THEN insert_while(z, f, i, score, r + z.heap[x].mLevel[i].mSpan)
    ELSE [x |-> x, rank |-> r]

RECURSIVE insert_search(_, _, _, _, _, _)
insert_search(z, x, i, score, update, rank) ==
    IF i < 0 THEN [update |-> update, rank |-> rank]
    ELSE LET r0 == IF i = z.mLevel - 1 THEN 0 ELSE rank[i + 1]
             w == insert_while(z, x, i, score, r0)
         IN insert_search(z, w.x, i - 1, score,
                          [update EXCEPT ![i] = w.x], [rank EXCEPT ![i] = w.rank])

RECURSIVE insert_raise(_, _, _, _)
insert_raise(s, i, level, length) ==
    IF i >= level THEN s
    ELSE insert_raise([heap |-> [s.heap EXCEPT ![mHeader].mLevel[i].mSpan = length],
                       update |-> [s.update EXCEPT ![i] = mHeader],
                       rank |-> [s.rank EXCEPT ![i] = 0]],
                      i + 1, level, length)

RECURSIVE insert_link(_, _, _, _, _, _)
insert_link(h, x, update, rank, i, level) ==
    IF i >= level THEN h
    ELSE LET u == update[i]
             h1 == [h EXCEPT ![x].mLevel[i].mForward = h[u].mLevel[i].mForward]
             h2 == [h1 EXCEPT ![u].mLevel[i].mForward = x]
             h3 == [h2 EXCEPT ![x].mLevel[i].mSpan =
                                  h2[u].mLevel[i].mSpan - (rank[0] - rank[i])]
             h4 == [h3 EXCEPT ![u].mLevel[i].mSpan = (rank[0] - rank[i]) + 1]
         IN insert_link(h4, x, update, rank, i + 1, level)

\* the spans of the levels above the new node's left as they are
insert_untouched_skipped(h, update, i, level) == h

RECURSIVE insert_untouched(_, _, _, _)
insert_untouched(h, update, i, level) ==
    IF i >= level THEN h
    ELSE insert_untouched([h EXCEPT ![update[i]].mLevel[i].mSpan = @ + 1],
                          update, i + 1, level)

insert_backward_own_only(h, x, update, tail) ==
    LET h1 == [h EXCEPT ![x].mBackward = IF update[0] = mHeader THEN NULL ELSE update[0]]
    IN [heap |-> h1, mTail |-> IF h1[x].mLevel[0].mForward # NULL THEN tail ELSE x]

\* lines 120-124: the new node's backward link, its successor's, and the tail
insert_backward(h, x, update, tail) ==
    LET h1 == [h EXCEPT ![x].mBackward = IF update[0] = mHeader THEN NULL ELSE update[0]]
        f == h1[x].mLevel[0].mForward
    IN IF f # NULL
       THEN [heap |-> [h1 EXCEPT ![f].mBackward = x], mTail |-> tail]
       ELSE [heap |-> h1, mTail |-> x]

private_insert(z, score, key, level) ==
    LET s0 == insert_search(z, mHeader, z.mLevel - 1, score, NoUpdate, NoRank)
        s1 == IF level > z.mLevel
              THEN insert_raise([heap |-> z.heap, update |-> s0.update, rank |-> s0.rank],
                                z.mLevel, level, z.mLength)
              ELSE [heap |-> z.heap, update |-> s0.update, rank |-> s0.rank]
        lvl == IF level > z.mLevel THEN level ELSE z.mLevel
        x == NewAddr(z.heap)
        h0 == (x :> SkipListNode(level, score, key)) @@ s1.heap
        h1 == insert_link(h0, x, s1.update, s1.rank, 0, level)
        h2 == insert_untouched(h1, s1.update, level, lvl)
        b == insert_backward(h2, x, s1.update, z.mTail)
    IN [z EXCEPT !.heap = b.heap, !.mTail = b.mTail, !.mLevel = lvl,
                 !.mLength = z.mLength + 1]

-----------------------------------------------------------------------------
(* private_delete_node, private_delete *)

RECURSIVE delete_node_unlink(_, _, _, _, _)
delete_node_unlink(h, x, update, i, level) ==
    IF i >= level THEN h
    ELSE LET u == update[i] IN
         delete_node_unlink(
             IF h[u].mLevel[i].mForward = x
             THEN [h EXCEPT ![u].mLevel[i].mSpan = @ + h[x].mLevel[i].mSpan - 1,
                            ![u].mLevel[i].mForward = h[x].mLevel[i].mForward]
             ELSE [h EXCEPT ![u].mLevel[i].mSpan = @ - 1],
             x, update, i + 1, level)

\* the current level left as it is
delete_node_shrink_never(h, level) == level

RECURSIVE delete_node_shrink(_, _)
delete_node_shrink(h, level) ==
    IF level > 1 /\ h[mHeader].mLevel[level - 1].mForward = NULL
    THEN delete_node_shrink(h, level - 1)
    ELSE level

\* the successor's backward link cleared instead of set to x's
delete_node_backward_to_null(h, x, tail) ==
    LET f == h[x].mLevel[0].mForward IN
    IF f # NULL
    THEN [heap |-> [h EXCEPT ![f].mBackward = NULL], mTail |-> tail]
    ELSE [heap |-> h, mTail |-> h[x].mBackward]

\* lines 140-144: the successor's backward link, or the tail
delete_node_backward(h, x, tail) ==
    LET f == h[x].mLevel[0].mForward IN
    IF f # NULL
    THEN [heap |-> [h EXCEPT ![f].mBackward = h[x].mBackward], mTail |-> tail]
    ELSE [heap |-> h, mTail |-> h[x].mBackward]

private_delete_node(z, x, update) ==
    LET h1 == delete_node_unlink(z.heap, x, update, 0, z.mLevel)
        b == delete_node_backward(h1, x, z.mTail)
    IN [z EXCEPT !.heap = b.heap, !.mTail = b.mTail,
                 !.mLevel = delete_node_shrink(b.heap, z.mLevel),
                 !.mLength = z.mLength - 1]

\* `delete x` after private_delete_node
delete_node(z, x) == [z EXCEPT !.heap = Free(z.heap, x)]

\* the comparison that moves the delete search forward (line 157)
delete_passes(nodeScore, score) == nodeScore < score

RECURSIVE delete_while(_, _, _, _)
delete_while(z, x, i, score) ==
    LET f == z.heap[x].mLevel[i].mForward IN
    IF f # NULL /\ delete_passes(z.heap[f].mScore, score)
    THEN delete_while(z, f, i, score)
    ELSE x

RECURSIVE delete_search(_, _, _, _, _)
delete_search(z, x, i, score, update) ==
    IF i < 0 THEN [x |-> x, update |-> update]
    ELSE LET y == delete_while(z, x, i, score)
         IN delete_search(z, y, i - 1, score, [update EXCEPT ![i] = y])

\* the test of the candidate node (line 164)
delete_matches(z, x, score, key) ==
    x # NULL /\ score = z.heap[x].mScore /\ z.heap[x].mKey = key

private_delete(z, score, key) ==
    LET s == delete_search(z, mHeader, z.mLevel - 1, score, NoUpdate)
        x == z.heap[s.x].mLevel[0].mForward
    IN IF delete_matches(z, x, score, key)
       THEN [z |-> delete_node(private_delete_node(z, x, s.update), x), found |-> TRUE]
       ELSE [z |-> z, found |-> FALSE]

-----------------------------------------------------------------------------
(* RangeSpec and the range tests *)

RangeSpec(min, max, minex, maxex) ==
    [mMin |-> min, mMax |-> max, mMinex |-> minex, mMaxex |-> maxex]

score_gte_min(score, spec) ==
    IF spec.mMinex THEN score > spec.mMin ELSE score >= spec.mMin

\* the upper-bound test that ignores mMaxex and always excludes the bound
score_lte_max_exclusive(score, spec) == score < spec.mMax

score_lte_max(score, spec) ==
    IF spec.mMaxex THEN score < spec.mMax ELSE score <= spec.mMax

is_in_range(z, range) ==
    IF range.mMin > range.mMax
       \/ (range.mMin = range.mMax /\ (range.mMinex \/ range.mMaxex))
    THEN FALSE
    ELSE IF z.mTail = NULL \/ ~score_gte_min(z.heap[z.mTail].mScore, range)
    THEN FALSE
    ELSE LET x == z.heap[mHeader].mLevel[0].mForward
         IN ~(x = NULL \/ ~score_lte_max(z.heap[x].mScore, range))

-----------------------------------------------------------------------------
(* private_delete_range_by_score, private_delete_range_by_rank *)

\* the test of lines 259-260: the next node is still before the range
before_range(nodeScore, range) ==
    IF range.mMinex THEN nodeScore <= range.mMin ELSE nodeScore < range.mMin

\* the test of line 269: the node is still within the upper bound
within_max(nodeScore, range) ==
    IF range.mMaxex THEN nodeScore < range.mMax ELSE nodeScore <= range.mMax

RECURSIVE range_score_while(_, _, _, _)
range_score_while(z, x, i, range) ==
    LET f == z.heap[x].mLevel[i].mForward IN
    IF f # NULL /\ before_range(z.heap[f].mScore, range)
    THEN range_score_while(z, f, i, range)
    ELSE x

RECURSIVE range_score_search(_, _, _, _, _)
range_score_search(z, x, i, range, update) ==
    IF i < 0 THEN [x |-> x, update |-> update]
    ELSE LET y == range_score_while(z, x, i, range)
         IN range_score_search(z, y, i - 1, range, [update EXCEPT ![i] = y])

\* one turn of the loops of lines 269-276 and 298-306
delete_in_range(z, x, update) ==
    LET z1 == private_delete_node(z, x, update)
        z2 == [z1 EXCEPT !.mDict = [k \in (DOMAIN @) \ {z1.heap[x].mKey} |-> @[k]]]
    IN delete_node(z2, x)

RECURSIVE range_score_delete(_, _, _, _, _)
range_score_delete(z, x, range, update, removed) ==
    IF x # NULL /\ within_max(z.heap[x].mScore, range)
    THEN range_score_delete(delete_in_range(z, x, update),
                            z.heap[x].mLevel[0].mForward, range, update, removed + 1)
    ELSE [z |-> z, removed |-> removed]

private_delete_range_by_score(z, range) ==
    LET s == range_score_search(z, mHeader, z.mLevel - 1, range, NoUpdate)
    IN range_score_delete(z, z.heap[s.x].mLevel[0].mForward, range, s.update, 0)

RECURSIVE range_rank_while(_, _, _, _, _)
range_rank_while(z, x, i, start, traversed) ==
    IF z.heap[x].mLevel[i].mForward # NULL
       /\ (traversed + z.heap[x].mLevel[i].mSpan) < start
    THEN range_rank_while(z, z.heap[x].mLevel[i].mForward, i, start,
                          traversed + z.heap[x].mLevel[i].mSpan)
    ELSE [x |-> x, traversed |-> traversed]

RECURSIVE range_rank_search(_, _, _, _, _, _)
range_rank_search(z, x, i, start, traversed, update) ==
    IF i < 0 THEN [x |-> x, traversed |-> traversed, update |-> update]
    ELSE LET w == range_rank_while(z, x, i, start, traversed)
         IN range_rank_search(z, w.x, i - 1, start, w.traversed,
                              [update EXCEPT ![i] = w.x])

RECURSIVE range_rank_delete(_, _, _, _, _, _)
range_rank_delete(z, x, end, update, traversed, removed) ==
    IF x # NULL /\ traversed <= end
    THEN range_rank_delete(delete_in_range(z, x, update),
                           z.heap[x].mLevel[0].mForward, end, update,
                           traversed + 1, removed + 1)
    ELSE [z |-> z, removed |-> removed]

private_delete_range_by_rank(z, start, end) ==
    LET s == range_rank_search(z, mHeader, z.mLevel - 1, start, 0, NoUpdate)
    IN range_rank_delete(z, z.heap[s.x].mLevel[0].mForward, end, s.update,
                         s.traversed + 1, 0)

-----------------------------------------------------------------------------
(* zadd_generic and the public mutators' bodies *)

DictPut(d, key, score) == [k \in (DOMAIN d) \cup {key} |-> IF k = key THEN score ELSE d[k]]
DictErase(d, key) == [k \in (DOMAIN d) \ {key} |-> d[k]]

\* zadd_generic without the test score != curscore of line 361: a present
\* key is always deleted and inserted again
zadd_generic_reinserting(z, key, score0, incr, level) ==
    IF key \in DOMAIN z.mDict
    THEN LET curscore == z.mDict[key]
             score == IF incr THEN score0 + curscore ELSE score0
             z1 == private_delete(z, curscore, key).z
             z2 == private_insert(z1, score, key, level)
         IN [z2 EXCEPT !.mDict = DictPut(z2.mDict, key, score)]
    ELSE LET z2 == private_insert(z, score0, key, level)
         IN [z2 EXCEPT !.mDict = DictPut(z2.mDict, key, score0)]

zadd_generic(z, key, score0, incr, level) ==
    IF key \in DOMAIN z.mDict
    THEN LET curscore == z.mDict[key]
             score == IF incr THEN score0 + curscore ELSE score0
         IN IF score # curscore
            THEN LET z1 == private_delete(z, curscore, key).z
                     z2 == private_insert(z1, score, key, level)
                 IN [z2 EXCEPT !.mDict = DictPut(z2.mDict, key, score)]
            ELSE z
    ELSE LET z2 == private_insert(z, score0, key, level)
         IN [z2 EXCEPT !.mDict = DictPut(z2.mDict, key, score0)]

zadd(z, key, score, level) == zadd_generic(z, key, score, FALSE, level)

zincrby(z, key, score, level) == zadd_generic(z, key, score, TRUE, level)

\* zrem that, for a key the index does not hold, deletes by score 0
zrem_unguarded(z, key) ==
    LET score == IF key \in DOMAIN z.mDict THEN z.mDict[key] ELSE 0
        z1 == private_delete(z, score, key).z
    IN [z1 EXCEPT !.mDict = DictErase(z1.mDict, key)]

zrem(z, key) ==
    IF key \in DOMAIN z.mDict
    THEN LET z1 == private_delete(z, z.mDict[key], key).z
         IN [z1 EXCEPT !.mDict = DictErase(z1.mDict, key)]
    ELSE z

zremrangebyscore(z, min, max, minex, maxex) ==
    private_delete_range_by_score(z, RangeSpec(min, max, minex, maxex)).z

\* the normalisation without the clamp of end to llen - 1
Sanitize_unclamped(llen, start0, end0) ==
    LET start1 == IF start0 < 0 THEN llen + start0 ELSE start0
        end == IF end0 < 0 THEN llen + end0 ELSE end0
        start == IF start1 < 0 THEN 0 ELSE start1
    IN [empty |-> start > end \/ start >= llen, start |-> start, end |-> end]

\* the index normalisation of lines 560-569 (and 377-387, 413-423):
\* the normalised 0-based start and end, or empty
Sanitize(llen, start0, end0) ==
    LET start1 == IF start0 < 0 THEN llen + start0 ELSE start0
        end == IF end0 < 0 THEN llen + end0 ELSE end0
        start == IF start1 < 0 THEN 0 ELSE start1
    IN IF start > end \/ start >= llen
       THEN [empty |-> TRUE, start |-> start, end |-> end]
       ELSE [empty |-> FALSE, start |-> start,
             end |-> IF end >= llen THEN llen - 1 ELSE end]

zremrangebyrank(z, start, end) ==
    LET n == Sanitize(z.mLength, start, end)
    IN IF n.empty THEN z
       ELSE private_delete_range_by_rank(z, n.start + 1, n.end + 1).z

-----------------------------------------------------------------------------
(* get_rank, get_element_by_rank *)

(* Values of type unsigned long are kept as integers congruent to them     *)
(* modulo 2^64 (2^64 itself is beyond the integers TLC handles): 0 - 1 is  *)
(* kept as -1 and stands for 2^64 - 1.  Sums and differences of such       *)
(* values are again congruent to the C++ results, and a small non-negative *)
(* value stands for itself.                                                *)

\* the comparison that moves the rank search forward (line 321)
rank_passes(nodeScore, score) == nodeScore <= score

RECURSIVE rank_while(_, _, _, _, _)
rank_while(z, x, i, score, rank) ==
    LET f == z.heap[x].mLevel[i].mForward IN
    IF f # NULL /\ rank_passes(z.heap[f].mScore, score)
    THEN rank_while(z, f, i, score, rank + z.heap[x].mLevel[i].mSpan)
    ELSE [x |-> x, rank |-> rank]

RECURSIVE rank_for(_, _, _, _, _, _)
rank_for(z, x, i, score, key, rank) ==
    IF i < 0 THEN 0
    ELSE LET w == rank_while(z, x, i, score, rank)
         IN IF ~z.heap[w.x].mIsHeader /\ z.heap[w.x].mKey = key
            THEN w.rank
            ELSE rank_for(z, w.x, i - 1, score, key, w.rank)

get_rank(z, score, key) == rank_for(z, mHeader, z.mLevel - 1, score, key, 0)

RECURSIVE by_rank_while(_, _, _, _, _)
by_rank_while(z, x, i, rank, traversed) ==
    IF z.heap[x].mLevel[i].mForward # NULL
       /\ (traversed + z.heap[x].mLevel[i].mSpan) <= rank
    THEN by_rank_while(z, z.heap[x].mLevel[i].mForward, i, rank,
                       traversed + z.heap[x].mLevel[i].mSpan)
    ELSE [x |-> x, traversed |-> traversed]

RECURSIVE by_rank_for(_, _, _, _, _)
by_rank_for(z, x, i, rank, traversed) ==
    IF i < 0 THEN NULL
    ELSE LET w == by_rank_while(z, x, i, rank, traversed)
         IN IF w.traversed = rank THEN w.x
            ELSE by_rank_for(z, w.x, i - 1, rank, w.traversed)

get_element_by_rank(z, rank) == by_rank_for(z, mHeader, z.mLevel - 1, rank, 0)

-----------------------------------------------------------------------------
(* zrange_generic, zrange_withscores_generic, zrank_generic, zscore, zcard *)

\* the loop of lines 402-406 (438-442): the nodes visited; abort when the
\* assertion ln != NULL fails
RECURSIVE range_walk(_, _, _, _, _)
range_walk(z, ln, rangelen, reverse, nodes) ==
    IF rangelen = 0 THEN [abort |-> FALSE, nodes |-> nodes]
    ELSE IF ln = NULL THEN [abort |-> TRUE, nodes |-> nodes]
    ELSE range_walk(z,
                    IF reverse THEN z.heap[ln].mBackward
                               ELSE z.heap[ln].mLevel[0].mForward,
                    rangelen - 1, reverse, Append(nodes, ln))

\* lines 390-400 (426-436): the node the walk starts from
range_start(z, start, reverse) ==
    IF reverse
    THEN IF start > 0 THEN get_element_by_rank(z, z.mLength - start) ELSE z.mTail
    ELSE IF start > 0 THEN get_element_by_rank(z, start + 1)
                      ELSE z.heap[mHeader].mLevel[0].mForward

range_nodes(z, start, end, reverse) ==
    LET n == Sanitize(z.mLength, start, end)
    IN IF n.empty THEN [abort |-> FALSE, nodes |-> <<>>]
       ELSE range_walk(z, range_start(z, n.start, reverse),
                       (n.end - n.start) + 1, reverse, <<>>)

zrange_generic(z, start, end, reverse) ==
    LET r == range_nodes(z, start, end, reverse)
    IN [abort |-> r.abort,
        result |-> [i \in 1..Len(r.nodes) |-> z.heap[r.nodes[i]].mKey]]

zrange_withscores_generic(z, start, end, reverse) ==
    LET r == range_nodes(z, start, end, reverse)
    IN [abort |-> r.abort,
        result |-> [i \in 1..Len(r.nodes) |->
                       <<z.heap[r.nodes[i]].mKey, z.heap[r.nodes[i]].mScore>>]]

zrank_generic(z, key, reverse) ==
    IF key \in DOMAIN z.mDict
    THEN LET rank == get_rank(z, z.mDict[key], key)
         IN [found |-> TRUE, rank |-> IF reverse THEN z.mLength - rank ELSE rank - 1]
    ELSE [found |-> FALSE, rank |-> 0]

zscore(z, key) ==
    IF key \in DOMAIN z.mDict
    THEN [found |-> TRUE, score |-> z.mDict[key]]
    ELSE [found |-> FALSE, score |-> 0]

zcard(z) == z.mLength

-----------------------------------------------------------------------------
(* first_in_range, last_in_range, zcount *)

RECURSIVE first_while(_, _, _, _)
first_while(z, x, i, range) ==
    LET f == z.heap[x].mLevel[i].mForward IN
    IF f # NULL /\ ~score_gte_min(z.heap[f].mScore, range)
    THEN first_while(z, f, i, range)
    ELSE x

RECURSIVE first_for(_, _, _, _)
first_for(z, x, i, range) ==
    IF i < 0 THEN x ELSE first_for(z, first_while(z, x, i, range), i - 1, range)

\* first_in_range without the test of line 219 that the node found is
\* within the upper bound
first_in_range_unverified(z, range) ==
    IF ~is_in_range(z, range) THEN [abort |-> FALSE, node |-> NULL]
    ELSE LET x == z.heap[first_for(z, mHeader, z.mLevel - 1, range)].mLevel[0].mForward
         IN IF x = NULL THEN [abort |-> TRUE, node |-> NULL]
            ELSE [abort |-> FALSE, node |-> x]

\* abort: the assertion x != NULL of line 216 fails
first_in_range(z, range) ==
    IF ~is_in_range(z, range) THEN [abort |-> FALSE, node |-> NULL]
    ELSE LET x == z.heap[first_for(z, mHeader, z.mLevel - 1, range)].mLevel[0].mForward
         IN IF x = NULL THEN [abort |-> TRUE, node |-> NULL]
            ELSE IF ~score_lte_max(z.heap[x].mScore, range)
            THEN [abort |-> FALSE, node |-> NULL]
            ELSE [abort |-> FALSE, node |-> x]

RECURSIVE last_while(_, _, _, _)
last_while(z, x, i, range) ==
    LET f == z.heap[x].mLevel[i].mForward IN
    IF f # NULL /\ score_lte_max(z.heap[f].mScore, range)
    THEN last_while(z, f, i, range)
    ELSE x

RECURSIVE last_for(_, _, _, _)
last_for(z, x, i, range) ==
    IF i < 0 THEN x ELSE last_for(z, last_while(z, x, i, range), i - 1, range)

\* abort: the assertion x != NULL of line 240 fails
last_in_range(z, range) ==
    IF ~is_in_range(z, range) THEN [abort |-> FALSE, node |-> NULL]
    ELSE LET x == last_for(z, mHeader, z.mLevel - 1, range)
         IN IF x = NULL THEN [abort |-> TRUE, node |-> NULL]
            ELSE IF ~score_gte_min(z.heap[x].mScore, range)
            THEN [abort |-> FALSE, node |-> NULL]
            ELSE [abort |-> FALSE, node |-> x]

zcount(z, min, max, minex, maxex) ==
    LET range == RangeSpec(min, max, minex, maxex)
        fst == first_in_range(z, range)
        lst == last_in_range(z, range)
        count1 == z.mLength - (get_rank(z, z.heap[fst.node].mScore, z.heap[fst.node].mKey) - 1)
    IN IF fst.abort THEN [abort |-> TRUE, count |-> 0]
       ELSE IF fst.node = NULL THEN [abort |-> FALSE, count |-> 0]
       ELSE IF lst.abort THEN [abort |-> TRUE, count |-> count1]
       ELSE IF lst.node = NULL THEN [abort |-> FALSE, count |-> count1]
       ELSE [abort |-> FALSE,
             count |-> count1 - (z.mLength
                                 - get_rank(z, z.heap[lst.node].mScore, z.heap[lst.node].mKey))]

-----------------------------------------------------------------------------
(* zrangebyscore_generic, zrangebyscore_withscores_generic *)

\* the loop of lines 465-478 (501-514): the nodes emitted, from ln on
RECURSIVE by_score_walk(_, _, _, _, _)
by_score_walk(z, ln, range, reverse, nodes) ==
    IF ln = NULL THEN nodes
    ELSE IF reverse /\ ~score_gte_min(z.heap[ln].mScore, range) THEN nodes
    ELSE IF ~reverse /\ ~score_lte_max(z.heap[ln].mScore, range) THEN nodes
    ELSE by_score_walk(z,
                       IF reverse THEN z.heap[ln].mBackward
                                  ELSE z.heap[ln].mLevel[0].mForward,
                       range, reverse, Append(nodes, ln))

\* the starting node and walk for a range built from the arguments as
\* given, whatever the direction
by_score_nodes_unswapped(z, min, max, reverse, minex, maxex) ==
    LET range == RangeSpec(min, max, minex, maxex)
        ln == IF reverse THEN last_in_range(z, range) ELSE first_in_range(z, range)
    IN IF ln.abort THEN [abort |-> TRUE, nodes |-> <<>>]
       ELSE [abort |-> FALSE,
             nodes |-> by_score_walk(z, ln.node, range, reverse, <<>>)]

\* lines 448-464 (484-500): the range is built from the arguments, swapped
\* when reverse, and the walk starts at its last or first node; abort when
\* the assertion of last_in_range or first_in_range fails
by_score_nodes(z, min, max, reverse, minex, maxex) ==
    LET range == RangeSpec(IF reverse THEN max ELSE min,
                           IF reverse THEN min ELSE max,
                           IF reverse THEN maxex ELSE minex,
                           IF reverse THEN minex ELSE maxex)
        ln == IF reverse THEN last_in_range(z, range) ELSE first_in_range(z, range)
    IN IF ln.abort THEN [abort |-> TRUE, nodes |-> <<>>]
       ELSE [abort |-> FALSE,
             nodes |-> by_score_walk(z, ln.node, range, reverse, <<>>)]

zrangebyscore_generic(z, min, max, reverse, minex, maxex) ==
    LET r == by_score_nodes(z, min, max, reverse, minex, maxex)
    IN [abort |-> r.abort,
        result |-> [i \in 1..Len(r.nodes) |-> z.heap[r.nodes[i]].mKey]]

zrangebyscore_withscores_generic(z, min, max, reverse, minex, maxex) ==
    LET r == by_score_nodes(z, min, max, reverse, minex, maxex)
    IN [abort |-> r.abort,
        result |-> [i \in 1..Len(r.nodes) |->
                       <<z.heap[r.nodes[i]].mKey, z.heap[r.nodes[i]].mScore>>]]

zrangebyscore(z, min, max, minex, maxex) ==
    zrangebyscore_generic(z, min, max, FALSE, minex, maxex)

zrevrangebyscore(z, min, max, minex, maxex) ==
    zrangebyscore_generic(z, min, max, TRUE, minex, maxex)

zrangebyscore_withscores(z, min, max, minex, maxex) ==
    zrangebyscore_withscores_generic(z, min, max, FALSE, minex, maxex)

zrevrangebyscore_withscores(z, min, max, minex, maxex) ==
    zrangebyscore_withscores_generic(z, min, max, TRUE, minex, maxex)

-----------------------------------------------------------------------------
(* The object, its constructor and the calls of the public mutators *)

This == [heap |-> heap, mTail |-> mTail, mLength |-> mLength, mLevel |-> mLevel,
         mDict |-> mDict]

Becomes(z) ==
    \E c \in {Compact(z)} :
    /\ heap' = c.heap
    /\ mTail' = c.mTail
    /\ mLength' = c.mLength
    /\ mLevel' = c.mLevel
    /\ mDict' = c.mDict

\* the second copy becomes z, if there is one
TwinBecomes(z) ==
    /\ paired' = paired
    /\ twin' = IF paired THEN Compact(z) ELSE twin

Init ==
    /\ heap = (mHeader :> HeaderNode(SKIPLIST_MAXLEVEL))
    /\ mTail = NULL
    /\ mLength = 0
    /\ mLevel = 1
    /\ mDict = [k \in {} |-> 0]
    /\ fresh = TRUE
    /\ lastOp = "SortedSet"
    /\ lastKey = 0
    /\ repeated = FALSE
    /\ absent = FALSE
    /\ paired = FALSE
    /\ twin = This

\* two copies are constructed
InitTwin ==
    /\ heap = (mHeader :> HeaderNode(SKIPLIST_MAXLEVEL))
    /\ mTail = NULL
    /\ mLength = 0
    /\ mLevel = 1
    /\ mDict = [k \in {} |-> 0]
    /\ fresh = TRUE
    /\ lastOp = "SortedSet"
    /\ lastKey = 0
    /\ repeated = FALSE
    /\ absent = FALSE
    /\ paired = TRUE
    /\ twin = This

Call_zadd(key, score, draw) ==
    \E z \in {zadd(This, key, score, randomlevel(draw))} :
    /\ z.mLength <= MaxNodes
    /\ Becomes(z)
    /\ TwinBecomes(zadd(twin, key, score, randomlevel(1)))
    /\ fresh' = (fresh /\ key \notin DOMAIN mDict)
    /\ lastOp' = "zadd"
    /\ lastKey' = key
    /\ repeated' = (lastOp = "zadd" /\ lastKey = key
                    /\ key \in DOMAIN mDict /\ mDict[key] = score)
    /\ absent' = FALSE

Call_zincrby(key, delta, draw) ==
    \E z \in {zincrby(This, key, delta, randomlevel(draw))} :
    /\ z.mLength <= MaxNodes
    /\ z.mDict[key] \in Scores
    /\ Becomes(z)
    /\ TwinBecomes(zincrby(twin, key, delta, randomlevel(1)))
    /\ fresh' = FALSE
    /\ lastOp' = "zincrby"
    /\ lastKey' = 0
    /\ repeated' = FALSE
    /\ absent' = FALSE

Call_zrem(key) ==
    /\ Becomes(zrem(This, key))
    /\ TwinBecomes(zrem(twin, key))
    /\ fresh' = FALSE
    /\ lastOp' = "zrem"
    /\ lastKey' = 0
    /\ repeated' = FALSE
    /\ absent' = (key \notin DOMAIN mDict)

Call_zremrangebyscore(min, max, minex, maxex) ==
    /\ Becomes(zremrangebyscore(This, min, max, minex, maxex))
    /\ TwinBecomes(zremrangebyscore(twin, min, max, minex, maxex))
    /\ fresh' = FALSE
    /\ lastOp' = "zremrangebyscore"
    /\ lastKey' = 0
    /\ repeated' = FALSE
    /\ absent' = FALSE

Call_zremrangebyrank(start, end) ==
    /\ Becomes(zremrangebyrank(This, start, end))
    /\ TwinBecomes(zremrangebyrank(twin, start, end))
    /\ fresh' = FALSE
    /\ lastOp' = "zremrangebyrank"
    /\ lastKey' = 0
    /\ repeated' = FALSE
    /\ absent' = FALSE

Next ==
    \/ \E key \in Keys, score \in Scores, draw \in Draws : Call_zadd(key, score, draw)
    \/ \E key \in Keys, delta \in Deltas, draw \in Draws : Call_zincrby(key, delta, draw)
    \/ \E key \in Keys : Call_zrem(key)
    \/ \E min \in Scores, max \in Scores, minex \in BOOLEAN, maxex \in BOOLEAN :
           Call_zremrangebyscore(min, max, minex, maxex)
    \/ \E start \in Indexes, end \in Indexes : Call_zremrangebyrank(start, end)

Spec == Init /\ [][Next]_vars

\* the same calls made on two copies, which differ in the levels drawn
SpecTwin == InitTwin /\ [][Next]_vars

-----------------------------------------------------------------------------
(* Observers used by the properties *)

\* the addresses along level 0 of z, from the header's successor
RECURSIVE Level0From(_, _)
Level0From(h, x) ==
    IF x = NULL THEN <<>> ELSE <<x>> \o Level0From(h, h[x].mLevel[0].mForward)

Level0(z) == Level0From(z.heap, z.heap[mHeader].mLevel[0].mForward)

Linked(z) == {Level0(z)[i] : i \in 1..Len(Level0(z))}

KeysLinked(z) == {z.heap[a].mKey : a \in Linked(z)}

NodesOf(z, key) == {a \in Linked(z) : z.heap[a].mKey = key}

\* zrange_withscores(0, -1)
Listing(z) == zrange_withscores_generic(z, 0, 0 - 1, FALSE).result

NonDecreasing(pairs) ==
    \A i \in 1..(Len(pairs) - 1) : pairs[i][2] <= pairs[i + 1][2]

Reverse(seq) == [i \in 1..Len(seq) |-> seq[Len(seq) + 1 - i]]

Without(pairs, key) == SelectSeq(pairs, LAMBDA p : p[1] # key)

\* a < b as values of type unsigned long
ULongLess(a, b) == IF (a < 0) = (b < 0) THEN a < b ELSE b < 0

ScoreArgs == (0 - 1)..(MaxScore + 1)

InRange(score, min, max, minex, maxex) ==
    /\ IF minex THEN score > min ELSE score >= min
    /\ IF maxex THEN score < max ELSE score <= max

TypeOK ==
    /\ mLength \in 0..MaxNodes
    /\ DOMAIN heap = {mHeader} \cup {a \in Addrs : a <= mHeader + mLength}
    /\ mLevel \in 1..SKIPLIST_MAXLEVEL
    /\ DOMAIN mDict \subseteq Keys
    /\ mTail \in DOMAIN heap \cup {NULL}
    /\ \A a \in DOMAIN heap :
          /\ heap[a].mBackward \in DOMAIN heap \cup {NULL}
          /\ \A i \in DOMAIN heap[a].mLevel :
                heap[a].mLevel[i].mForward \in DOMAIN heap \cup {NULL}

-----------------------------------------------------------------------------
(* C1..C10 *)

\* C1: the key index and the skip list have the same cardinality
\* (zcard() = mLength = |mDict|) and the same key set, in every state the
\* public operations reach.
C1_IndexListParity ==
    /\ zcard(This) = mLength
    /\ mLength = Cardinality(DOMAIN mDict)
    /\ Len(Level0(This)) = mLength
    /\ DOMAIN mDict = KeysLinked(This)

\* C2: no key is held by more than one linked node.
C2_KeyUniqueness ==
    \A a \in Linked(This), b \in Linked(This) :
        heap[a].mKey = heap[b].mKey => a = b

\* C3: zrem of a present key removes exactly that element: afterwards
\* zscore(key) is absent, zrange(0,-1) does not hold key, zcard() is one
\* less, and every other element keeps its score and relative order.
C3_ZremRemovesExactly ==
    [][\A key \in DOMAIN mDict :
          (lastOp' = "zrem" /\ mDict' = DictErase(mDict, key)) =>
              /\ ~zscore(This', key).found
              /\ \A i \in 1..Len(Listing(This')) : Listing(This')[i][1] # key
              /\ zcard(This') = zcard(This) - 1
              /\ Listing(This') = Without(Listing(This), key)
              /\ \A k \in DOMAIN mDict :
                    k # key => zscore(This', k) = zscore(This, k)]_vars

\* C4: after zadd(k, s) the set holds k with score s; after zincrby(k, d)
\* it holds k with score c+d (k present with score c) or d (k absent);
\* zcard() grows by 1 if k was absent and is unchanged otherwise, and
\* zrange_withscores(0,-1) has exactly one entry for k, with the new score.
AddPost(key, score) ==
    /\ zscore(This', key) = [found |-> TRUE, score |-> score]
    /\ zcard(This') = zcard(This) + (IF key \in DOMAIN mDict THEN 0 ELSE 1)
    /\ Cardinality({i \in 1..Len(Listing(This')) : Listing(This')[i][1] = key}) = 1
    /\ \A i \in 1..Len(Listing(This')) :
          Listing(This')[i][1] = key => Listing(This')[i][2] = score

IncrScore(key, delta) == IF key \in DOMAIN mDict THEN mDict[key] + delta ELSE delta

C4_AddPostState ==
    [][\A key \in Keys :
          /\ \A score \in Scores :
                (lastOp' = "zadd" /\ mDict' = DictPut(mDict, key, score))
                    => AddPost(key, score)
          /\ \A delta \in Deltas :
                (lastOp' = "zincrby" /\ mDict' = DictPut(mDict, key, IncrScore(key, delta)))
                    => AddPost(key, IncrScore(key, delta))]_vars

\* C5: for every key of the index, zscore(key) is the score stored in every
\* linked node that holds the key.
C5_ScoreAgreement ==
    \A key \in DOMAIN mDict :
        /\ zscore(This, key).found
        /\ \A a \in NodesOf(This, key) : heap[a].mScore = zscore(This, key).score
        /\ \A i \in 1..Len(Listing(This)) :
              Listing(This)[i][1] = key => Listing(This)[i][2] = zscore(This, key).score

\* C6: along level 0 every node's score is <= its successor's, so
\* zrange(0,-1) lists the elements in non-decreasing score order.
C6_Ordering ==
    /\ \A i \in 1..(Len(Level0(This)) - 1) :
          heap[Level0(This)[i]].mScore <= heap[Level0(This)[i + 1]].mScore
    /\ ~zrange_withscores_generic(This, 0, 0 - 1, FALSE).abort
    /\ Len(Listing(This)) = mLength
    /\ NonDecreasing(Listing(This))

\* C6 witness: inserts and deletes have both run.  A rank-range delete was
\* the last call; the header's stale span above the current level shows
\* that a node of two levels was inserted and has been deleted; two nodes
\* of different scores remain.
C6_Witness ==
    /\ lastOp = "zremrangebyrank"
    /\ mLevel = 1
    /\ heap[mHeader].mLevel[1].mSpan > 0
    /\ \E a \in Linked(This), b \in Linked(This) : heap[a].mScore < heap[b].mScore

\* C7: for every present key k, zrank(k) reports a 0-based rank r with
\* 0 <= r < zcard(), and zrange(r, r) = [k].
C7_RankRoundTrip ==
    \A key \in DOMAIN mDict :
        LET r == zrank_generic(This, key, FALSE) IN
        /\ r.found
        /\ ULongLess(r.rank, zcard(This))
        /\ zrange_generic(This, r.rank, r.rank, FALSE) =
               [abort |-> FALSE, result |-> <<key>>]

\* C8: for every node, get_rank(node.score, node.key) = 1 + the number of
\* nodes of strictly smaller score + the number of nodes of equal score
\* that were inserted earlier.
C8_RankFormula ==
    \A a \in Linked(This) :
        get_rank(This, heap[a].mScore, heap[a].mKey) =
            1 + Cardinality({b \in Linked(This) : heap[b].mScore < heap[a].mScore})
              + Cardinality({b \in Linked(This) :
                                heap[b].mScore = heap[a].mScore /\ b < a})

\* C9: zcount(min, max, minex, maxex) is the number of stored elements
\* whose score lies in the range, for every range.
C9_CountExact ==
    \A min \in ScoreArgs, max \in ScoreArgs, minex \in BOOLEAN, maxex \in BOOLEAN :
        zcount(This, min, max, minex, maxex) =
            [abort |-> FALSE,
             count |-> Cardinality({a \in Linked(This) :
                           InRange(heap[a].mScore, min, max, minex, maxex)})]

\* C10: after inserting N distinct keys (any scores, order and levels),
\* zrange(0, N-1) returns all N keys in non-decreasing score order and
\* zrevrange(0, N-1) returns the reverse of that sequence.
C10_RangeRoundTrip ==
    fresh =>
        LET n == Cardinality(DOMAIN mDict)
            fwd == zrange_generic(This, 0, n - 1, FALSE)
            rev == zrange_generic(This, 0, n - 1, TRUE)
        IN /\ ~fwd.abort /\ ~rev.abort
           /\ Len(fwd.result) = n
           /\ {fwd.result[i] : i \in 1..n} = DOMAIN mDict
           /\ \A i \in 1..(n - 1) : mDict[fwd.result[i]] <= mDict[fwd.result[i + 1]]
           /\ rev.result = Reverse(fwd.result)

\* C10 witness: MaxNodes distinct keys were inserted and nothing else was
\* called; two of them share a score and the nodes differ in level.
C10_Witness ==
    /\ fresh
    /\ lastOp = "zadd"
    /\ Cardinality(DOMAIN mDict) = MaxNodes
    /\ \E a \in Linked(This), b \in Linked(This) :
          a # b /\ heap[a].mScore = heap[b].mScore
    /\ \E a \in Linked(This), b \in Linked(This) :
          DOMAIN heap[a].mLevel # DOMAIN heap[b].mLevel
    /\ \E a \in Linked(This), b \in Linked(This) :
          heap[a].mScore < heap[b].mScore

-----------------------------------------------------------------------------
(* C11..C20 *)

\* the index arguments tried by the queries: negative, zero, beyond length
IndexArgs == (0 - (MaxNodes + 2))..(MaxNodes + 2)

\* the keys of a sequence of nodes
KeysOf(z, nodes) == [i \in 1..Len(nodes) |-> z.heap[nodes[i]].mKey]

\* C11: for all integers start and end, zrange / zrevrange never fails;
\* with negative indexes translated to length+index, a still-negative
\* start clamped to 0 and end clamped to length-1, the result is empty when
\* start > end or start >= length, and otherwise exactly the end'-start'+1
\* keys at positions start'..end' of the ascending order (of the
\* descending order when reverse is true).
C11_IndexNormalisation ==
    \A start \in IndexArgs, end \in IndexArgs, reverse \in BOOLEAN :
        LET ascending == KeysOf(This, Level0(This))
            order == IF reverse THEN Reverse(ascending) ELSE ascending
            start1 == IF start < 0 THEN mLength + start ELSE start
            end1 == IF end < 0 THEN mLength + end ELSE end
            start2 == IF start1 < 0 THEN 0 ELSE start1
            end2 == IF end1 >= mLength THEN mLength - 1 ELSE end1
            r == zrange_generic(This, start, end, reverse)
        IN /\ ~r.abort
           /\ IF start2 > end1 \/ start2 >= mLength
              THEN r.result = <<>>
              ELSE /\ Len(r.result) = (end2 - start2) + 1
                   /\ r.result = SubSeq(order, start2 + 1, end2 + 1)

\* C11 witness: the list is full, its nodes differ in level, and
\* zrevrange(-2, MaxNodes + 1), with a negative start and an end beyond the
\* length, returns two keys in an order zrange does not return them in.
C11_Witness ==
    /\ mLength = MaxNodes
    /\ \E a \in Linked(This), b \in Linked(This) :
          DOMAIN heap[a].mLevel # DOMAIN heap[b].mLevel
    /\ Len(zrange_generic(This, 0 - 2, MaxNodes + 1, TRUE).result) = 2
    /\ zrange_generic(This, 0 - 2, MaxNodes + 1, TRUE).result
           # zrange_generic(This, 0 - 2, MaxNodes + 1, FALSE).result

\* the 1-based positions start'..end' that the index normalisation of C11
\* selects in a list of llen elements
Positions(llen, start, end) ==
    LET start1 == IF start < 0 THEN llen + start ELSE start
        end1 == IF end < 0 THEN llen + end ELSE end
        start2 == IF start1 < 0 THEN 0 ELSE start1
        end2 == IF end1 >= llen THEN llen - 1 ELSE end1
    IN IF start2 > end1 \/ start2 >= llen THEN {} ELSE (start2 + 1)..(end2 + 1)

\* seq without the elements at the positions of drop
RECURSIVE Dropping(_, _, _)
Dropping(seq, drop, i) ==
    IF i > Len(seq) THEN <<>>
    ELSE (IF i \in drop THEN <<>> ELSE <<seq[i]>>) \o Dropping(seq, drop, i + 1)

\* what C12 says of a call zremrangebyrank(start, end)
RemoveRangeByRankPost(start, end) ==
    LET drop == Positions(mLength, start, end)
        gone == {Listing(This)[i][1] : i \in drop}
    IN /\ Listing(This') = Dropping(Listing(This), drop, 1)
       /\ zcard(This') = zcard(This) - Cardinality(drop)
       /\ DOMAIN mDict' = DOMAIN mDict \ gone
       /\ \A i \in 1..Len(Listing(This')) :
             zrank_generic(This', Listing(This')[i][1], FALSE)
                 = [found |-> TRUE, rank |-> i - 1]

\* C12: zremrangebyrank(start, end) removes exactly the elements at the
\* normalised positions start..end of the ascending order, removes their
\* keys from the key index, leaves the other elements in their previous
\* relative order with contiguous ranks (zrank of the i-th remaining
\* element is i-1), and removes nothing when the normalised range is empty.
C12_RemoveRangeByRank ==
    [][lastOp' = "zremrangebyrank" =>
          \A start \in Indexes, end \in Indexes :
              Call_zremrangebyrank(start, end) => RemoveRangeByRankPost(start, end)]_vars

\* what C13 says of a call zremrangebyscore(min, max, minex, maxex)
RemoveRangeByScorePost(min, max, minex, maxex) ==
    LET outside(score) == ~InRange(score, min, max, minex, maxex)
    IN /\ Listing(This') = SelectSeq(Listing(This), LAMBDA p : outside(p[2]))
       /\ \A key \in DOMAIN mDict :
             IF outside(mDict[key])
             THEN zscore(This', key) = zscore(This, key)
             ELSE ~zscore(This', key).found

\* C13: zremrangebyscore(min, max, minex, maxex) removes exactly the
\* elements whose score lies in the range, from the skip list and from the
\* key index, and leaves every element outside the range present, with
\* its score and the relative order unchanged.
C13_RemoveRangeByScore ==
    [][lastOp' = "zremrangebyscore" =>
          \A min \in Scores, max \in Scores, minex \in BOOLEAN, maxex \in BOOLEAN :
              Call_zremrangebyscore(min, max, minex, maxex)
                  => RemoveRangeByScorePost(min, max, minex, maxex)]_vars

\* the linked nodes whose score lies in the range, in level-0 order
NodesInRange(z, min, max, minex, maxex) ==
    SelectSeq(Level0(z), LAMBDA a : InRange(z.heap[a].mScore, min, max, minex, maxex))

\* C14: zrangebyscore(min, max, minex, maxex) returns exactly the stored
\* elements whose score lies in the range, in ascending level-0 order, for
\* every range; keys of equal score are all returned.
C14_RangeByScoreForward ==
    \A min \in ScoreArgs, max \in ScoreArgs, minex \in BOOLEAN, maxex \in BOOLEAN :
        LET nodes == NodesInRange(This, min, max, minex, maxex)
        IN /\ zrangebyscore(This, min, max, minex, maxex) =
                  [abort |-> FALSE, result |-> KeysOf(This, nodes)]
           /\ zrangebyscore_withscores(This, min, max, minex, maxex) =
                  [abort |-> FALSE,
                   result |-> [i \in 1..Len(nodes) |->
                                  <<heap[nodes[i]].mKey, heap[nodes[i]].mScore>>]]

\* C14 witness: the list is full and holds scores below and at MaxScore;
\* zrangebyscore(MaxScore, MaxScore) returns two different keys, both of
\* score MaxScore.
C14_Witness ==
    /\ mLength = MaxNodes
    /\ \E a \in Linked(This) : heap[a].mScore < MaxScore
    /\ LET r == zrangebyscore(This, MaxScore, MaxScore, FALSE, FALSE).result
       IN Len(r) = 2 /\ r[1] # r[2]

\* C15, as stated: for the same arguments (min, max, minex, maxex) with
\* min <= max, zrevrangebyscore returns the elements zrangebyscore
\* returns, in the opposite order.
C15_ReverseSameArguments ==
    \A min \in ScoreArgs, max \in ScoreArgs, minex \in BOOLEAN, maxex \in BOOLEAN :
        min <= max =>
            zrevrangebyscore(This, min, max, minex, maxex) =
                [abort |-> FALSE,
                 result |-> Reverse(zrangebyscore(This, min, max, minex, maxex).result)]

\* C15, amended: zrevrangebyscore takes the bounds and the flags in the
\* opposite order.  For min <= max, zrevrangebyscore(max, min, maxex, minex)
\* returns the elements zrangebyscore(min, max, minex, maxex) returns, in
\* the opposite order (so does the score-carrying variant), and
\* zrevrangebyscore(min, max, ...) with min < max returns nothing.
C15_ReverseSwappedArguments ==
    \A min \in ScoreArgs, max \in ScoreArgs, minex \in BOOLEAN, maxex \in BOOLEAN :
        min <= max =>
            /\ zrevrangebyscore(This, max, min, maxex, minex) =
                   [abort |-> FALSE,
                    result |-> Reverse(zrangebyscore(This, min, max, minex, maxex).result)]
            /\ zrevrangebyscore_withscores(This, max, min, maxex, minex) =
                   [abort |-> FALSE,
                    result |-> Reverse(zrangebyscore_withscores(This, min, max,
                                                                minex, maxex).result)]
            /\ min < max =>
                   zrevrangebyscore(This, min, max, minex, maxex) =
                       [abort |-> FALSE, result |-> <<>>]

\* C15 witness: the list is full and holds both scores 0 and MaxScore;
\* zrevrangebyscore(MaxScore, 0) returns every key, the first one of score
\* MaxScore and the last one of score 0, and zrevrangebyscore(0, MaxScore)
\* returns none.
C15_Witness ==
    LET r == zrevrangebyscore_withscores(This, MaxScore, 0, FALSE, FALSE).result
    IN /\ mLength = MaxNodes
       /\ Len(r) = MaxNodes
       /\ r[1][2] = MaxScore
       /\ r[MaxNodes][2] = 0
       /\ zrevrangebyscore(This, 0, MaxScore, FALSE, FALSE).result = <<>>

\* C16: zadd(k, s) made immediately after zadd(k, s) changes nothing:
\* zcard(), the score of every key, the rank of every key and the whole
\* zrange(0,-1) sequence are what they were before the second call.
C16_AddIdempotent ==
    [][repeated' =>
          /\ zcard(This') = zcard(This)
          /\ \A key \in Keys :
                /\ zscore(This', key) = zscore(This, key)
                /\ zrank_generic(This', key, FALSE) = zrank_generic(This, key, FALSE)
                /\ zrank_generic(This', key, TRUE) = zrank_generic(This, key, TRUE)
          /\ zrange_generic(This', 0, 0 - 1, FALSE) = zrange_generic(This, 0, 0 - 1, FALSE)
          /\ Listing(This') = Listing(This)]_vars

\* C16 witness: the last call repeated the zadd before it, on a full list
\* in which the key shares its score with another key.
C16_Witness ==
    /\ repeated
    /\ mLength = MaxNodes
    /\ \E a \in Linked(This) :
          heap[a].mKey # lastKey /\ heap[a].mScore = mDict[lastKey]

\* what C17 says of the queries: zscore, zrank and zrevrank of a key the
\* index does not hold report false, and on an empty structure zcard() is
\* 0 and zrange(0,-1) is empty
NotFoundQueries ==
    /\ \A key \in Keys \ DOMAIN mDict :
          /\ ~zscore(This, key).found
          /\ ~zrank_generic(This, key, FALSE).found
          /\ ~zrank_generic(This, key, TRUE).found
    /\ (DOMAIN mDict = {} /\ Linked(This) = {}) =>
          /\ zcard(This) = 0
          /\ zrange_generic(This, 0, 0 - 1, FALSE) = [abort |-> FALSE, result |-> <<>>]

\* C17: zrem of an absent key leaves the skip list and the key index
\* unchanged; zscore, zrank and zrevrank of an absent key report false; on
\* an empty set zcard() is 0 and zrange(0,-1) is empty.
C17_NotFound ==
    /\ []NotFoundQueries
    /\ [][(lastOp' = "zrem" /\ absent') =>
              UNCHANGED <<heap, mTail, mLength, mLevel, mDict>>]_vars

\* C17 witness: the last call was zrem of a key the index did not hold,
\* made on a full list whose keys are not the keys of the index.
C17_Witness ==
    /\ lastOp = "zrem"
    /\ absent
    /\ mLength = MaxNodes
    /\ KeysLinked(This) # DOMAIN mDict

\* the range is structurally empty, or no stored score lies in it
EmptyRange(z, min, max, minex, maxex) ==
    \/ min > max
    \/ (min = max /\ (minex \/ maxex))
    \/ \A a \in Linked(z) : ~InRange(z.heap[a].mScore, min, max, minex, maxex)

\* C18: for every range (min, max, minex, maxex) that is structurally
\* empty or holds no stored score, in every reachable state, no assertion
\* of first_in_range or last_in_range fires, both find no node,
\* zrangebyscore and the zrevrangebyscore call over the same range return
\* the empty sequence, zcount returns 0 and zremrangebyscore removes
\* nothing.
C18_EmptyRange ==
    \A min \in ScoreArgs, max \in ScoreArgs, minex \in BOOLEAN, maxex \in BOOLEAN :
        EmptyRange(This, min, max, minex, maxex) =>
            /\ first_in_range(This, RangeSpec(min, max, minex, maxex)) =
                   [abort |-> FALSE, node |-> NULL]
            /\ last_in_range(This, RangeSpec(min, max, minex, maxex)) =
                   [abort |-> FALSE, node |-> NULL]
            /\ zrangebyscore(This, min, max, minex, maxex) =
                   [abort |-> FALSE, result |-> <<>>]
            /\ zrangebyscore_withscores(This, min, max, minex, maxex) =
                   [abort |-> FALSE, result |-> <<>>]
            /\ zrevrangebyscore(This, max, min, maxex, minex) =
                   [abort |-> FALSE, result |-> <<>>]
            /\ zrevrangebyscore_withscores(This, max, min, maxex, minex) =
                   [abort |-> FALSE, result |-> <<>>]
            /\ zcount(This, min, max, minex, maxex) = [abort |-> FALSE, count |-> 0]
            /\ private_delete_range_by_score(This, RangeSpec(min, max, minex, maxex)) =
                   [z |-> This, removed |-> 0]
            /\ zremrangebyscore(This, min, max, minex, maxex) = This

\* C18 witness: zremrangebyscore was the last call and left a full list, so
\* it removed nothing; the list holds both scores 0 and MaxScore, so the
\* range (0, MaxScore) with both bounds exclusive passes is_in_range and
\* still holds no stored score.
C18_Witness ==
    /\ lastOp = "zremrangebyscore"
    /\ mLength = MaxNodes
    /\ \E a \in Linked(This) : heap[a].mScore = 0
    /\ \E a \in Linked(This) : heap[a].mScore = MaxScore
    /\ is_in_range(This, RangeSpec(0, MaxScore, TRUE, TRUE))
    /\ EmptyRange(This, 0, MaxScore, TRUE, TRUE)

\* the 1-based position of node x along level 0; the header is at 0
Position(z, x) ==
    IF x = mHeader THEN 0
    ELSE CHOOSE i \in 1..Len(Level0(z)) : Level0(z)[i] = x

\* C19: for every level i below the current level and every node on that
\* level, header included, the span of the level-i forward edge is the
\* number of level-0 steps to the edge's target, or the number of nodes
\* after the node when the forward link is null; so the spans crossed on
\* the way down from the header to a node add up to the node's position.
C19_SpanInvariant ==
    /\ \A x \in {mHeader} \cup Linked(This) :
          \A i \in DOMAIN heap[x].mLevel :
              i < mLevel =>
                  LET e == heap[x].mLevel[i]
                  IN IF e.mForward # NULL
                     THEN /\ e.mForward \in Linked(This)
                          /\ e.mSpan = Position(This, e.mForward) - Position(This, x)
                     ELSE e.mSpan = mLength - Position(This, x)
    /\ \A r \in 1..mLength : get_element_by_rank(This, r) = Level0(This)[r]

\* C19 witness: a range delete was the last call; of the two nodes left,
\* the first has one level and the second two, so the header's level-1
\* edge spans two level-0 steps and the tail's null edges span none.
C19_Witness ==
    /\ lastOp \in {"zremrangebyscore", "zremrangebyrank"}
    /\ mLength = 2
    /\ mLevel = 2
    /\ heap[mHeader].mLevel[1].mForward = mTail
    /\ heap[mHeader].mLevel[1].mSpan = 2
    /\ heap[mTail].mLevel[1] = [mForward |-> NULL, mSpan |-> 0]

\* C20: when zadd or zincrby inserts a key the index did not hold, with a
\* score some linked node already has, the new node is linked immediately
\* before the first node whose score is not strictly less: zrange(0,-1)
\* lists the keys of smaller score, then the new key, then the keys of
\* equal and of larger score, all in their previous order.
C20_TieBreakPlacement ==
    [][\A key \in Keys \ DOMAIN mDict, score \in Scores :
          (/\ lastOp' \in {"zadd", "zincrby"}
           /\ mDict' = DictPut(mDict, key, score)
           /\ \E a \in Linked(This) : heap[a].mScore = score)
          => /\ Listing(This') =
                    SelectSeq(Listing(This), LAMBDA p : p[2] < score)
                    \o <<(<<key, score>>)>>
                    \o SelectSeq(Listing(This), LAMBDA p : p[2] >= score)
             /\ zrange_generic(This', 0, 0 - 1, FALSE).result =
                    [i \in 1..Len(Listing(This')) |-> Listing(This')[i][1]]]_vars

\* C20 witness: only new keys were added; the last one is the newest node
\* of a full list and sits between a node of smaller score and an older
\* node of its own score.
C20_Witness ==
    /\ fresh
    /\ lastOp = "zadd"
    /\ mLength = MaxNodes
    /\ LET x == heap[mHeader + mLength]
       IN /\ x.mKey = lastKey
          /\ x.mBackward # NULL
          /\ heap[x.mBackward].mScore < x.mScore
          /\ x.mLevel[0].mForward # NULL
          /\ heap[x.mLevel[0].mForward].mScore = x.mScore

-----------------------------------------------------------------------------
(* C21..C23 *)

\* the addresses met walking mBackward from x, for at most fuel steps
RECURSIVE BackwardFrom(_, _, _)
BackwardFrom(h, x, fuel) ==
    IF x = NULL \/ fuel = 0 THEN <<>>
    ELSE <<x>> \o BackwardFrom(h, h[x].mBackward, fuel - 1)

\* C21: mTail is the last node along level 0 (null if the list is empty);
\* every node's mBackward is its level-0 predecessor, null for the first
\* node and never the header; so the walk along mBackward from mTail
\* visits the level-0 sequence in reverse and has mLength nodes.
C21_BackwardAndTail ==
    LET seq == Level0(This) IN
    /\ mTail = IF seq = <<>> THEN NULL ELSE seq[Len(seq)]
    /\ \A i \in 1..Len(seq) :
          /\ heap[seq[i]].mBackward = IF i = 1 THEN NULL ELSE seq[i - 1]
          /\ heap[seq[i]].mBackward # mHeader
    /\ BackwardFrom(heap, mTail, MaxNodes + 1) = Reverse(seq)
    /\ Len(BackwardFrom(heap, mTail, MaxNodes + 1)) = mLength

\* C21 witness: a range delete was the last call and left two nodes, the
\* older one, inserted before the newer one in the list, now the tail.
C21_Witness ==
    /\ lastOp \in {"zremrangebyscore", "zremrangebyrank"}
    /\ mLength = 2
    /\ mTail = mHeader + 1
    /\ heap[mTail].mBackward = mHeader + 2
    /\ heap[mHeader + 2].mBackward = NULL

\* the level count of node a
LevelCount(z, a) == Cardinality(DOMAIN z.heap[a].mLevel)

\* the largest level count among the linked nodes, 1 when there are none
MaxLevelCount(z) ==
    IF Linked(z) = {} THEN 1
    ELSE CHOOSE n \in {LevelCount(z, a) : a \in Linked(z)} :
             \A a \in Linked(z) : LevelCount(z, a) <= n

\* the lengths of the runs of coin flips tried on randomlevel
LongDraws == 1..(SKIPLIST_MAXLEVEL + 2)

CurrentLevel ==
    /\ 1 <= mLevel /\ mLevel <= SKIPLIST_MAXLEVEL
    /\ \A draw \in LongDraws :
          1 <= randomlevel(draw) /\ randomlevel(draw) <= SKIPLIST_MAXLEVEL
    /\ mLevel = MaxLevelCount(This)
    /\ mLevel > 1 => heap[mHeader].mLevel[mLevel - 1].mForward # NULL
    /\ \A i \in mLevel..(SKIPLIST_MAXLEVEL - 1) : heap[mHeader].mLevel[i].mForward = NULL

\* C22: 1 <= mLevel <= 32 and mLevel is the largest level count among the
\* live nodes (1 when the list is empty); the header's forward link at
\* level mLevel-1 is not null whenever mLevel > 1; and mLevel decreases
\* only in a call that deletes, when no node of the former top level is
\* left.
C22_CurrentLevel ==
    /\ []CurrentLevel
    /\ [][mLevel' < mLevel =>
              /\ \E a \in Linked(This) : LevelCount(This, a) = mLevel
              /\ \A a \in Linked(This') : LevelCount(This', a) < mLevel
              /\ ~(lastOp' \in {"zadd", "zincrby"} /\ DOMAIN mDict' # DOMAIN mDict)]_vars

\* C22 witness: a node of two levels was inserted behind another node,
\* which left a span at the header's level 1, and has been deleted by the
\* last call; the two nodes left have one level.
C22_Witness ==
    /\ lastOp \in {"zrem", "zremrangebyscore", "zremrangebyrank"}
    /\ mLevel = 1
    /\ mLength = 2
    /\ heap[mHeader].mLevel[1].mSpan > 0

\* what every public query returns on z
Queries(z) ==
    [zcard |-> zcard(z),
     zscore |-> [key \in Keys |-> zscore(z, key)],
     zrank |-> [key \in Keys |-> zrank_generic(z, key, FALSE)],
     zrevrank |-> [key \in Keys |-> zrank_generic(z, key, TRUE)],
     zcount |-> [a \in ScoreArgs \X ScoreArgs \X BOOLEAN \X BOOLEAN |->
                    zcount(z, a[1], a[2], a[3], a[4])],
     zrange |-> [a \in IndexArgs \X IndexArgs |->
                    zrange_generic(z, a[1], a[2], FALSE)],
     zrevrange |-> [a \in IndexArgs \X IndexArgs |->
                    zrange_generic(z, a[1], a[2], TRUE)],
     zrangebyscore |-> [a \in ScoreArgs \X ScoreArgs \X BOOLEAN \X BOOLEAN |->
                    zrangebyscore(z, a[1], a[2], a[3], a[4])],
     zrevrangebyscore |-> [a \in ScoreArgs \X ScoreArgs \X BOOLEAN \X BOOLEAN |->
                    zrevrangebyscore(z, a[1], a[2], a[3], a[4])]]

\* C23: two copies of the set that receive the same calls and differ only
\* in the levels drawn for their nodes give the same result to every
\* public query, after every call.
C23_LevelIndependence ==
    paired => Queries(This) = Queries(twin)

=============================================================================
